---- MODULE Spec2Model ----
(***************************************************************************)
(* Model of the Deaura vault adapter (deaura-amm/src/amm.rs): discovery,   *)
(* reserve update, quoting, instruction construction and duplication of a  *)
(* DeauraAmm instance.                                                     *)
(*                                                                         *)
(* Public keys are strings.  A u64 is a sequence of four 16-bit limbs and  *)
(* a u128 a sequence of eight, most significant limb first, so that the    *)
(* whole 64-bit range is representable.                                    *)
(***************************************************************************)
EXTENDS Integers, Sequences, FiniteSets, TLC

\* ------------------------------------------------------------------------
\* Bounds of the model
\* ------------------------------------------------------------------------
\* small quote / swap amounts 0..MaxSmall are enumerated next to the named ones
MaxSmall == 1
\* small vault balances 0..MaxBal are enumerated next to the named ones
MaxBal == 0

\* ------------------------------------------------------------------------
\* Fixed-width unsigned integers
\* ------------------------------------------------------------------------
LimbBase == 2^16

U64Limbs == 4

U128Limbs == 8

\* the u64 whose value is n, for n below one limb
U64Of(n) == [i \in 1..U64Limbs |-> IF i = U64Limbs THEN n ELSE 0]

U64_MAX == [i \in 1..U64Limbs |-> LimbBase - 1]

\* u64::MAX / 2
U64_HALF == [i \in 1..U64Limbs |-> IF i = 1 THEN (LimbBase \div 2) - 1 ELSE LimbBase - 1]

\* `x as u128` / `x.into()` for a u64 x: zero extension
AsU128(a) == [i \in 1..U128Limbs |-> IF i <= U128Limbs - U64Limbs THEN 0 ELSE a[i - (U128Limbs - U64Limbs)]]

U128_ZERO == [i \in 1..U128Limbs |-> 0]

\* a <= b for two integers of the same width
LeWide(a, b) ==
    \/ a = b
    \/ \E i \in 1..Len(a) : /\ \A j \in 1..(i - 1) : a[j] = b[j]
                            /\ a[i] < b[i]

\* ------------------------------------------------------------------------
\* constants.rs
\* ------------------------------------------------------------------------
DEAURA_PROGRAM_ID == "5ZcDxdRBiRe73S68BCHE7NwPt82evS5FyPPU9rfXwYBj"

VNX_MINT == "9TPL8droGJ7jThsq4momaoz6uhTcvX2SeMqipoPmNa8R"

GOLDC_MINT == "EhGYsb13zhso2xhQSd1H1xdu6bvcv88oLoVMWgfAV6tx"

VNX_DEPOSIT_VAULT == "CKixsXaerxYaaXuijWQFxKAyXHkAhfi2r9BBk6Wke4BH"

VNX_REDEEM_VAULT == "EUpqbEGhSPBegZJbk3HbdBNnMW7DTy7tb8fwnAejcfG1"

DEPOSIT_IX_DISC == <<242, 35, 198, 137, 82, 225, 242, 182>>

REDEEM_IX_DISC == <<184, 12, 86, 149, 70, 196, 97, 225>>

\* well-known program ids referenced by account_metas
SPL_TOKEN_ID == "TokenkegQfeZyiNwAJbNbGKPFXCWuBvf9Ss623VQ5DA"

SPL_ASSOCIATED_TOKEN_ACCOUNT_ID == "ATokenGPvbdGVxr1b2hvZbsiqW5xWH25efTNsLJA8knL"

SYSTEM_PROGRAM_ID == "11111111111111111111111111111111"

\* ------------------------------------------------------------------------
\* Inputs the routing engine may supply
\* ------------------------------------------------------------------------
\* a key that is none of the compiled-in identities (Pubkey::new_unique())
UNIQUE_KEY == "1111111111111111111111111111111unique1"

\* the wallet authorities and token accounts of callers
WALLET_A == "WalletA1111111111111111111111111111111111111"

WALLET_B == "WalletB1111111111111111111111111111111111111"

USER_ATA_1 == "UserAta1111111111111111111111111111111111111"

USER_ATA_2 == "UserAta2222222222222222222222222222222222222"

KeyedAccountKeys == {VNX_DEPOSIT_VAULT, VNX_REDEEM_VAULT, UNIQUE_KEY, VNX_MINT}

Mints == {VNX_MINT, GOLDC_MINT, UNIQUE_KEY}

Wallets == {WALLET_A, WALLET_B}

TokenAccounts == {USER_ATA_1, USER_ATA_2}

SwapModes == {"ExactIn", "ExactOut"}

Amounts ==
    {U64Of(n) : n \in 0..MaxSmall}
        \cup {U64Of(3000), U64Of(5000), U64Of(6000), U64_HALF, U64_MAX}

\* the input amounts of instruction construction
SwapAmounts ==
    {U64Of(n) : n \in 0..MaxSmall} \cup {U64Of(1000), <<258, 772, 1286, 1800>>, U64_MAX}

Balances == {U64Of(n) : n \in 0..MaxBal} \cup {U64Of(5000), U64_MAX}

\* spl_token::state::Account::LEN
TOKEN_ACCOUNT_LEN == 165

\* raw account payloads: a packed token account, an empty payload, a payload
\* of the right length whose state byte says "uninitialized"
Payloads ==
    {[len |-> TOKEN_ACCOUNT_LEN, state |-> "Initialized", amount |-> b] : b \in Balances}
        \cup {[len |-> 0, state |-> "Uninitialized", amount |-> U64Of(0)],
              [len |-> TOKEN_ACCOUNT_LEN, state |-> "Uninitialized", amount |-> U64Of(0)]}

\* AccountMap: a finite map from account key to payload
AccountMaps ==
    UNION {[D -> Payloads] : D \in SUBSET {VNX_DEPOSIT_VAULT, VNX_REDEEM_VAULT}}

\* ------------------------------------------------------------------------
\* Result<T>
\* ------------------------------------------------------------------------
Ok(v) == [ok |-> TRUE, err |-> "", value |-> v]

Err(e) == [ok |-> FALSE, err |-> e, value |-> <<>>]

\* ------------------------------------------------------------------------
\* Collaborators called by update
\* ------------------------------------------------------------------------
\* jupiter_amm_interface::try_get_account_data
try_get_account_data(account_map, address) ==
    IF address \in DOMAIN account_map
    THEN Ok(account_map[address])
    ELSE Err("AccountNotFound")

\* spl_token::state::Account::unpack: length check, then initialised check
TokenAccountUnpack(data) ==
    IF data.len # TOKEN_ACCOUNT_LEN THEN Err("MalformedAccount")
    ELSE IF data.state = "Uninitialized" THEN Err("MalformedAccount")
    ELSE Ok([amount |-> data.amount])

\* ------------------------------------------------------------------------
\* impl DeauraAmm
\* ------------------------------------------------------------------------
\* Pubkey::find_program_address(seeds, program_id).0: a deterministic address,
\* distinct for distinct seeds
FindProgramAddress(seeds, program_id) == "pda(" \o seeds \o ")@" \o program_id

derive_global_state == FindProgramAddress("global_state", DEAURA_PROGRAM_ID)

derive_vault_authority == FindProgramAddress("vault_authority", DEAURA_PROGRAM_ID)

derive_user_data(payer) == FindProgramAddress("user_state," \o payer, DEAURA_PROGRAM_ID)

\* AccountMeta::new(pubkey, is_signer): writable
AccountMetaNew(pubkey, is_signer) ==
    [pubkey |-> pubkey, is_signer |-> is_signer, is_writable |-> TRUE]

\* AccountMeta::new_readonly(pubkey, is_signer)
AccountMetaNewReadonly(pubkey, is_signer) ==
    [pubkey |-> pubkey, is_signer |-> is_signer, is_writable |-> FALSE]

\* variant: the two mints listed in the opposite order
account_metas_mints_swapped(payer, payer_goldc_ata, payer_vnx_ata, vnx_vault) ==
    << AccountMetaNew(payer, TRUE),
       AccountMetaNew(derive_global_state, FALSE),
       AccountMetaNew(derive_vault_authority, FALSE),
       AccountMetaNew(VNX_MINT, FALSE),
       AccountMetaNew(payer_goldc_ata, FALSE),
       AccountMetaNew(GOLDC_MINT, FALSE),
       AccountMetaNew(payer_vnx_ata, FALSE),
       AccountMetaNew(vnx_vault, FALSE),
       AccountMetaNew(derive_user_data(payer), FALSE),
       AccountMetaNewReadonly(SPL_TOKEN_ID, FALSE),
       AccountMetaNewReadonly(SPL_ASSOCIATED_TOKEN_ACCOUNT_ID, FALSE),
       AccountMetaNewReadonly(SYSTEM_PROGRAM_ID, FALSE) >>

account_metas(payer, payer_goldc_ata, payer_vnx_ata, vnx_vault) ==
    << AccountMetaNew(payer, TRUE),
       AccountMetaNew(derive_global_state, FALSE),
       AccountMetaNew(derive_vault_authority, FALSE),
       AccountMetaNew(GOLDC_MINT, FALSE),
       AccountMetaNew(payer_goldc_ata, FALSE),
       AccountMetaNew(VNX_MINT, FALSE),
       AccountMetaNew(payer_vnx_ata, FALSE),
       AccountMetaNew(vnx_vault, FALSE),
       AccountMetaNew(derive_user_data(payer), FALSE),
       AccountMetaNewReadonly(SPL_TOKEN_ID, FALSE),
       AccountMetaNewReadonly(SPL_ASSOCIATED_TOKEN_ACCOUNT_ID, FALSE),
       AccountMetaNewReadonly(SYSTEM_PROGRAM_ID, FALSE) >>

direction_from_source_mint(source_mint) ==
    IF source_mint = VNX_MINT THEN Ok("Deposit")
    ELSE IF source_mint = GOLDC_MINT THEN Ok("Redeem")
    ELSE Err("UnsupportedAsset")

\* ------------------------------------------------------------------------
\* impl Amm for DeauraAmm
\* ------------------------------------------------------------------------
LABEL_DEPOSIT == "Deaura Vault (VNX→GOLDC)"

LABEL_REDEEM == "Deaura Vault (GOLDC→VNX)"

\* variant: the two labels attached to the wrong vaults
from_keyed_account_labels_swapped(key) ==
    IF key = VNX_DEPOSIT_VAULT
    THEN Ok([key |-> key, label |-> LABEL_REDEEM, program_id |-> DEAURA_PROGRAM_ID,
             vnx_vault |-> key, direction |-> "Deposit", vnx_reserve |-> U128_ZERO])
    ELSE IF key = VNX_REDEEM_VAULT
    THEN Ok([key |-> key, label |-> LABEL_DEPOSIT, program_id |-> DEAURA_PROGRAM_ID,
             vnx_vault |-> key, direction |-> "Redeem", vnx_reserve |-> U128_ZERO])
    ELSE Err("UnknownMarket")

from_keyed_account(key) ==
    IF key = VNX_DEPOSIT_VAULT
    THEN Ok([key |-> key, label |-> LABEL_DEPOSIT, program_id |-> DEAURA_PROGRAM_ID,
             vnx_vault |-> key, direction |-> "Deposit", vnx_reserve |-> U128_ZERO])
    ELSE IF key = VNX_REDEEM_VAULT
    THEN Ok([key |-> key, label |-> LABEL_REDEEM, program_id |-> DEAURA_PROGRAM_ID,
             vnx_vault |-> key, direction |-> "Redeem", vnx_reserve |-> U128_ZERO])
    ELSE Err("UnknownMarket")

\* variant: the redeem vault is watched whatever the instance
get_accounts_to_update_redeem_vault(self) == <<VNX_REDEEM_VAULT>>

get_accounts_to_update(self) == <<self.vnx_vault>>

\* a + b modulo 2^(16 * Len(a)), limb by limb
RECURSIVE CarryInto(_, _, _)
CarryInto(a, b, i) ==
    IF i = Len(a) THEN 0
    ELSE (a[i + 1] + b[i + 1] + CarryInto(a, b, i + 1)) \div LimbBase

AddWide(a, b) == [i \in 1..Len(a) |-> (a[i] + b[i] + CarryInto(a, b, i)) % LimbBase]

\* variant: the balance is added to the cached reserve
update_accumulate(self, account_map) ==
    LET vnx_vault_acc_data == try_get_account_data(account_map, self.vnx_vault)
        token_acc == TokenAccountUnpack(vnx_vault_acc_data.value)
    IN  IF ~vnx_vault_acc_data.ok
        THEN [self |-> self, result |-> Err(vnx_vault_acc_data.err)]
        ELSE IF ~token_acc.ok
        THEN [self |-> self, result |-> Err(token_acc.err)]
        ELSE [self |-> [self EXCEPT !.vnx_reserve =
                            AddWide(self.vnx_reserve, AsU128(token_acc.value.amount))],
              result |-> Ok(<<>>)]

\* variant: the redeem vault's entry is read whatever the instance
update_redeem_vault_only(self, account_map) ==
    LET vnx_vault_acc_data == try_get_account_data(account_map, VNX_REDEEM_VAULT)
        token_acc == TokenAccountUnpack(vnx_vault_acc_data.value)
    IN  IF ~vnx_vault_acc_data.ok
        THEN [self |-> self, result |-> Err(vnx_vault_acc_data.err)]
        ELSE IF ~token_acc.ok
        THEN [self |-> self, result |-> Err(token_acc.err)]
        ELSE [self |-> [self EXCEPT !.vnx_reserve = AsU128(token_acc.value.amount)],
              result |-> Ok(<<>>)]

\* variant: a failed call clears the cached reserve
update_clears_on_error(self, account_map) ==
    LET vnx_vault_acc_data == try_get_account_data(account_map, self.vnx_vault)
        token_acc == TokenAccountUnpack(vnx_vault_acc_data.value)
        cleared == [self EXCEPT !.vnx_reserve = U128_ZERO]
    IN  IF ~vnx_vault_acc_data.ok
        THEN [self |-> cleared, result |-> Err(vnx_vault_acc_data.err)]
        ELSE IF ~token_acc.ok
        THEN [self |-> cleared, result |-> Err(token_acc.err)]
        ELSE [self |-> [self EXCEPT !.vnx_reserve = AsU128(token_acc.value.amount)],
              result |-> Ok(<<>>)]

\* the new value of self together with the returned Result<()>
update(self, account_map) ==
    LET vnx_vault_acc_data == try_get_account_data(account_map, self.vnx_vault)
        token_acc == TokenAccountUnpack(vnx_vault_acc_data.value)
    IN  IF ~vnx_vault_acc_data.ok
        THEN [self |-> self, result |-> Err(vnx_vault_acc_data.err)]
        ELSE IF ~token_acc.ok
        THEN [self |-> self, result |-> Err(token_acc.err)]
        ELSE [self |-> [self EXCEPT !.vnx_reserve = AsU128(token_acc.value.amount)],
              result |-> Ok(<<>>)]

\* variant: the liquidity check written with < instead of <=
quote_strict(self, quote_params) ==
    IF /\ quote_params.input_mint = GOLDC_MINT
       /\ LeWide(self.vnx_reserve, AsU128(quote_params.amount))
    THEN Err("InsufficientLiquidity")
    ELSE Ok([fee_pct |-> 0,
             in_amount |-> quote_params.amount,
             out_amount |-> quote_params.amount,
             fee_amount |-> U64Of(0),
             fee_mint |-> quote_params.input_mint])

\* variant: the fee is denominated in the output mint
quote_fee_in_output(self, quote_params) ==
    IF /\ quote_params.input_mint = GOLDC_MINT
       /\ ~LeWide(AsU128(quote_params.amount), self.vnx_reserve)
    THEN Err("InsufficientLiquidity")
    ELSE Ok([fee_pct |-> 0,
             in_amount |-> quote_params.amount,
             out_amount |-> quote_params.amount,
             fee_amount |-> U64Of(0),
             fee_mint |-> quote_params.output_mint])

\* variant: the liquidity check applied to every input mint
quote_gate_every_mint(self, quote_params) ==
    IF ~LeWide(AsU128(quote_params.amount), self.vnx_reserve)
    THEN Err("InsufficientLiquidity")
    ELSE Ok([fee_pct |-> 0,
             in_amount |-> quote_params.amount,
             out_amount |-> quote_params.amount,
             fee_amount |-> U64Of(0),
             fee_mint |-> quote_params.input_mint])

\* variant: a deposit-direction instance refuses GOLDC as input
quote_rejects_direction_mismatch(self, quote_params) ==
    IF quote_params.input_mint = GOLDC_MINT /\ self.direction = "Deposit"
    THEN Err("DirectionMismatch")
    ELSE IF /\ quote_params.input_mint = GOLDC_MINT
            /\ ~LeWide(AsU128(quote_params.amount), self.vnx_reserve)
    THEN Err("InsufficientLiquidity")
    ELSE Ok([fee_pct |-> 0,
             in_amount |-> quote_params.amount,
             out_amount |-> quote_params.amount,
             fee_amount |-> U64Of(0),
             fee_mint |-> quote_params.input_mint])

quote(self, quote_params) ==
    IF /\ quote_params.input_mint = GOLDC_MINT
       /\ ~LeWide(AsU128(quote_params.amount), self.vnx_reserve)
    THEN Err("InsufficientLiquidity")
    ELSE Ok([fee_pct |-> 0,
             in_amount |-> quote_params.amount,
             out_amount |-> quote_params.amount,
             fee_amount |-> U64Of(0),
             fee_mint |-> quote_params.input_mint])

get_accounts_len(self) == 12

\* variant: the duplicate starts from an empty cache
clone_amm_fresh_reserve(self) ==
    [key |-> self.key, label |-> self.label, program_id |-> self.program_id,
     vnx_vault |-> self.vnx_vault, direction |-> self.direction,
     vnx_reserve |-> U128_ZERO]

clone_amm(self) ==
    [key |-> self.key, label |-> self.label, program_id |-> self.program_id,
     vnx_vault |-> self.vnx_vault, direction |-> self.direction,
     vnx_reserve |-> self.vnx_reserve]

\* variant: most significant byte first
to_be_bytes(amount) ==
    [i \in 1..(2 * U64Limbs) |->
        LET limb == amount[((i - 1) \div 2) + 1]
        IN  IF i % 2 = 1 THEN limb \div 256 ELSE limb % 256]

\* u64::to_le_bytes: least significant byte first
to_le_bytes(amount) ==
    [i \in 1..(2 * U64Limbs) |->
        LET limb == amount[U64Limbs - ((i - 1) \div 2)]
        IN  IF i % 2 = 1 THEN limb % 256 ELSE limb \div 256]

ix_data(discriminator, amount) == discriminator \o to_le_bytes(amount)

\* variant: the redeem direction keeps the deposit direction's account roles
swap_instruction_roles_not_swapped(swap_params) ==
    LET direction == direction_from_source_mint(swap_params.source_mint)
        roles ==
            IF direction.value = "Deposit"
            THEN [payer_vnx_ata |-> swap_params.source_token_account,
                  payer_goldc_ata |-> swap_params.destination_token_account,
                  vnx_vault |-> VNX_DEPOSIT_VAULT,
                  ix_disc |-> DEPOSIT_IX_DISC]
            ELSE [payer_vnx_ata |-> swap_params.source_token_account,
                  payer_goldc_ata |-> swap_params.destination_token_account,
                  vnx_vault |-> VNX_REDEEM_VAULT,
                  ix_disc |-> REDEEM_IX_DISC]
        payer == swap_params.token_transfer_authority
        metas == account_metas(payer, roles.payer_goldc_ata, roles.payer_vnx_ata,
                               roles.vnx_vault)
    IN  IF ~direction.ok
        THEN Err(direction.err)
        ELSE Ok([program_id |-> DEAURA_PROGRAM_ID,
                 accounts |-> metas,
                 data |-> ix_data(roles.ix_disc, swap_params.in_amount)])

\* the Instruction built inside get_swap_and_account_metas
swap_instruction(swap_params) ==
    LET direction == direction_from_source_mint(swap_params.source_mint)
        roles ==
            IF direction.value = "Deposit"
            THEN [payer_vnx_ata |-> swap_params.source_token_account,
                  payer_goldc_ata |-> swap_params.destination_token_account,
                  vnx_vault |-> VNX_DEPOSIT_VAULT,
                  ix_disc |-> DEPOSIT_IX_DISC]
            ELSE [payer_vnx_ata |-> swap_params.destination_token_account,
                  payer_goldc_ata |-> swap_params.source_token_account,
                  vnx_vault |-> VNX_REDEEM_VAULT,
                  ix_disc |-> REDEEM_IX_DISC]
        payer == swap_params.token_transfer_authority
        metas == account_metas(payer, roles.payer_goldc_ata, roles.payer_vnx_ata,
                               roles.vnx_vault)
    IN  IF ~direction.ok
        THEN Err(direction.err)
        ELSE Ok([program_id |-> DEAURA_PROGRAM_ID,
                 accounts |-> metas,
                 data |-> ix_data(roles.ix_disc, swap_params.in_amount)])

\* variant: the vault slot holds the instance's own vault
get_swap_and_account_metas_own_vault(self, swap_params) ==
    LET ix == swap_instruction(swap_params)
    IN  IF ~ix.ok
        THEN Err(ix.err)
        ELSE Ok([swap |-> "TokenSwap",
                 account_metas |->
                     [ix.value.accounts EXCEPT ![8] = AccountMetaNew(self.vnx_vault, FALSE)]])

\* variant: a redeem is built only when the cached reserve covers the amount
get_swap_and_account_metas_gated(self, swap_params) ==
    LET ix == swap_instruction(swap_params)
    IN  IF ~ix.ok
        THEN Err(ix.err)
        ELSE IF /\ swap_params.source_mint = GOLDC_MINT
                /\ ~LeWide(AsU128(swap_params.in_amount), self.vnx_reserve)
        THEN Err("InsufficientLiquidity")
        ELSE Ok([swap |-> "TokenSwap", account_metas |-> ix.value.accounts])

get_swap_and_account_metas(self, swap_params) ==
    LET ix == swap_instruction(swap_params)
    IN  IF ~ix.ok
        THEN Err(ix.err)
        ELSE Ok([swap |-> "TokenSwap", account_metas |-> ix.value.accounts])

\* ------------------------------------------------------------------------
\* The routing engine driving the adapter
\* ------------------------------------------------------------------------
\* the engine holds a discovered instance and a duplicate of it
Slots == {"amm", "cloned"}

NoAmm == [key |-> "none"]

NoEntry == [len |-> 0, state |-> "none", amount |-> U64Of(0)]

\* the payload an AccountMap holds for a key
SnapshotEntry(account_map, key) ==
    IF key \in DOMAIN account_map
    THEN account_map[key]
    ELSE [len |-> 0, state |-> "missing", amount |-> U64Of(0)]

NoCall == [op |-> "none", slot |-> "none", args |-> <<>>, result |-> Ok(<<>>)]

\* the engine asks for the other asset of the pair as output
QuoteParamsSet ==
    {[input_mint |-> m, output_mint |-> IF m = VNX_MINT THEN GOLDC_MINT ELSE VNX_MINT,
      amount |-> a, swap_mode |-> mode] : m \in Mints, a \in Amounts, mode \in SwapModes}

\* source and destination are two different token accounts of the caller
SwapParamsSet ==
    {[source_mint |-> m, source_token_account |-> src,
      destination_token_account |-> CHOOSE dst \in TokenAccounts : dst # src,
      token_transfer_authority |-> w, in_amount |-> a] :
        m \in Mints, src \in TokenAccounts, w \in Wallets, a \in SwapAmounts}

VARIABLES
    amms,          \* slot -> the DeauraAmm held there, or NoAmm
    lastEntry,     \* slot -> the payload its own key had in the AccountMap of the
                   \* last update that returned Ok (history, NoEntry before)
    ret            \* the last call: operation, slot, arguments, returned value

vars == <<amms, lastEntry, ret>>

Init ==
    /\ amms = [s \in Slots |-> NoAmm]
    /\ lastEntry = [s \in Slots |-> NoEntry]
    /\ ret = NoCall

Call(op, slot, args, result) == [op |-> op, slot |-> slot, args |-> args, result |-> result]

FromKeyedAccount(key) ==
    LET r == from_keyed_account(key)
    IN  /\ amms["amm"] = NoAmm
        /\ amms' = IF r.ok THEN [amms EXCEPT !["amm"] = r.value] ELSE amms
        /\ ret' = Call("from_keyed_account", "amm", key, r)
        /\ UNCHANGED lastEntry

GetAccountsToUpdate(s) ==
    /\ amms[s] # NoAmm
    /\ ret' = Call("get_accounts_to_update", s, <<>>, Ok(get_accounts_to_update(amms[s])))
    /\ UNCHANGED <<amms, lastEntry>>

Update(s, account_map) ==
    LET r == update(amms[s], account_map)
    IN  /\ amms[s] # NoAmm
        /\ amms' = [amms EXCEPT ![s] = r.self]
        /\ lastEntry' = IF r.result.ok
                        THEN [lastEntry EXCEPT ![s] = SnapshotEntry(account_map, amms[s].key)]
                        ELSE lastEntry
        /\ ret' = Call("update", s, account_map, r.result)

\* a - b modulo 2^(16 * Len(a)), limb by limb
RECURSIVE BorrowInto(_, _, _)
BorrowInto(a, b, i) ==
    IF i = Len(a) THEN 0
    ELSE IF a[i + 1] - b[i + 1] - BorrowInto(a, b, i + 1) < 0 THEN 1 ELSE 0

SubWide(a, b) ==
    [i \in 1..Len(a) |-> (a[i] - b[i] - BorrowInto(a, b, i) + LimbBase) % LimbBase]

\* variant: a successful redeem quote deducts the amount from the cached reserve
QuoteConsumesReserve(s, quote_params) ==
    LET r == quote(amms[s], quote_params)
    IN  /\ amms[s] # NoAmm
        /\ ret' = Call("quote", s, quote_params, r)
        /\ amms' = IF r.ok /\ quote_params.input_mint = GOLDC_MINT
                   THEN [amms EXCEPT ![s].vnx_reserve =
                            SubWide(amms[s].vnx_reserve, AsU128(quote_params.amount))]
                   ELSE amms
        /\ UNCHANGED lastEntry

Quote(s, quote_params) ==
    /\ amms[s] # NoAmm
    /\ ret' = Call("quote", s, quote_params, quote(amms[s], quote_params))
    /\ UNCHANGED <<amms, lastEntry>>

GetAccountsLen(s) ==
    /\ amms[s] # NoAmm
    /\ ret' = Call("get_accounts_len", s, <<>>, Ok(get_accounts_len(amms[s])))
    /\ UNCHANGED <<amms, lastEntry>>

GetSwapAndAccountMetas(s, swap_params) ==
    /\ amms[s] # NoAmm
    /\ ret' = Call("get_swap_and_account_metas", s, swap_params,
                   get_swap_and_account_metas(amms[s], swap_params))
    /\ UNCHANGED <<amms, lastEntry>>

CloneAmm ==
    /\ amms["amm"] # NoAmm
    /\ amms["cloned"] = NoAmm
    /\ amms' = [amms EXCEPT !["cloned"] = clone_amm(amms["amm"])]
    /\ lastEntry' = [lastEntry EXCEPT !["cloned"] = lastEntry["amm"]]
    /\ ret' = Call("clone_amm", "cloned", <<>>, Ok(<<>>))

Next ==
    \/ \E key \in KeyedAccountKeys : FromKeyedAccount(key)
    \/ \E s \in Slots : GetAccountsToUpdate(s)
    \/ \E s \in Slots, account_map \in AccountMaps : Update(s, account_map)
    \/ \E s \in Slots, quote_params \in QuoteParamsSet : Quote(s, quote_params)
    \/ \E s \in Slots : GetAccountsLen(s)
    \/ \E s \in Slots, swap_params \in SwapParamsSet : GetSwapAndAccountMetas(s, swap_params)
    \/ CloneAmm

Spec == Init /\ [][Next]_vars

\* ------------------------------------------------------------------------
\* Vocabulary of the properties
\* ------------------------------------------------------------------------
Live(s) == amms[s] # NoAmm

\* a > b for two integers of the same width: the most significant limb in
\* which they differ is larger in a
Exceeds(a, b) ==
    \E i \in 1..Len(a) : /\ a[i] > b[i]
                         /\ \A j \in 1..(i - 1) : a[j] = b[j]

\* the 128-bit reserve r holds exactly the 64-bit quantity a
HoldsU64(r, a) ==
    /\ Len(r) = U128Limbs
    /\ \A i \in 1..(U128Limbs - U64Limbs) : r[i] = 0
    /\ \A i \in 1..U64Limbs : r[(U128Limbs - U64Limbs) + i] = a[i]

\* the 64-bit amount a is above the 128-bit reserve r
AboveReserve(a, r) == Exceeds(<<0, 0, 0, 0>> \o a, r)

QuoteIs(a) ==
    /\ ret.result.ok
    /\ ret.result.value.in_amount = a
    /\ ret.result.value.out_amount = a

QuoteFailedWith(e) ==
    /\ ~ret.result.ok
    /\ ret.result.err = e
    /\ ret.result.value = <<>>

\* ------------------------------------------------------------------------
\* C1: a quote whose input mint is GOLDC succeeds with out_amount equal to
\* the amount exactly when the amount is at most the cached reserve, and
\* fails with the insufficient-liquidity error, returning no quote, exactly
\* when the amount is above it; on an instance that was never updated every
\* amount >= 1 fails and amount 0 succeeds.
\* ------------------------------------------------------------------------
C1_RedeemQuoteGatedByReserve ==
    (ret.op = "quote" /\ ret.args.input_mint = GOLDC_MINT) =>
        LET a == ret.args.amount
            r == amms[ret.slot].vnx_reserve
        IN  /\ (~AboveReserve(a, r)) <=> (ret.result.ok /\ ret.result.value.out_amount = a)
            /\ AboveReserve(a, r) <=> QuoteFailedWith("InsufficientLiquidity")
            /\ lastEntry[ret.slot] = NoEntry =>
                   /\ r = U128_ZERO
                   /\ ret.result.ok <=> (a = U64Of(0))

\* a redeem quote for exactly the cached reserve has succeeded
C1_Witness ==
    /\ ret.op = "quote"
    /\ ret.args.input_mint = GOLDC_MINT
    /\ ret.args.amount = U64Of(5000)
    /\ HoldsU64(amms[ret.slot].vnx_reserve, U64Of(5000))
    /\ amms[ret.slot].direction = "Redeem"
    /\ QuoteIs(U64Of(5000))

\* ------------------------------------------------------------------------
\* C2: every quote that succeeds, in either swap mode and on either
\* instance, returns in_amount = out_amount = the requested amount,
\* fee_amount = 0, fee_pct = 0 and fee_mint = the requested input mint.
\* ------------------------------------------------------------------------
C2_QuoteIsOneToOneWithoutFee ==
    (ret.op = "quote" /\ ret.result.ok) =>
        /\ QuoteIs(ret.args.amount)
        /\ ret.result.value.fee_amount = U64Of(0)
        /\ ret.result.value.fee_pct = 0
        /\ ret.result.value.fee_mint = ret.args.input_mint

\* an exact-output redeem quote of a non-zero amount has succeeded
C2_Witness ==
    /\ ret.op = "quote"
    /\ ret.result.ok
    /\ ret.args.swap_mode = "ExactOut"
    /\ ret.args.input_mint = GOLDC_MINT
    /\ ret.args.amount = U64Of(3000)
    /\ amms[ret.slot].direction = "Redeem"

\* ------------------------------------------------------------------------
\* C3: a quote whose input mint is not GOLDC succeeds 1:1 for every amount
\* up to u64::MAX and for every value of the cached reserve, 0 included.
\* ------------------------------------------------------------------------
C3_DepositQuoteIgnoresReserve ==
    (ret.op = "quote" /\ ret.args.input_mint # GOLDC_MINT) =>
        /\ QuoteIs(ret.args.amount)
        /\ ret.result.value.fee_amount = U64Of(0)

\* a VNX quote of u64::MAX has succeeded on an instance whose reserve is 0
C3_Witness ==
    /\ ret.op = "quote"
    /\ ret.args.input_mint = VNX_MINT
    /\ ret.args.amount = U64_MAX
    /\ amms[ret.slot].vnx_reserve = U128_ZERO
    /\ QuoteIs(U64_MAX)

\* ------------------------------------------------------------------------
\* C4: from_keyed_account succeeds exactly for the two vault keys and fails
\* with the unknown-market error, returning no instance, for any other key;
\* on success the instance's key is the supplied key, its program id is
\* DEAURA_PROGRAM_ID, its label is the one of that vault's direction and
\* its cached reserve is 0.
\* ------------------------------------------------------------------------
C4_DiscoveryOnlyOfRegisteredVaults ==
    (ret.op = "from_keyed_account") =>
        LET key == ret.args
            amm == ret.result.value
        IN  /\ ret.result.ok <=> (key \in {VNX_DEPOSIT_VAULT, VNX_REDEEM_VAULT})
            /\ ~ret.result.ok =>
                   /\ ret.result.err = "UnknownMarket"
                   /\ ret.result.value = <<>>
                   /\ \A s \in Slots : ~Live(s)
            /\ ret.result.ok =>
                   /\ amms["amm"] = amm
                   /\ amm.key = key
                   /\ amm.program_id = DEAURA_PROGRAM_ID
                   /\ amm.vnx_reserve = U128_ZERO
                   /\ key = VNX_DEPOSIT_VAULT =>
                          (amm.direction = "Deposit" /\ amm.label = "Deaura Vault (VNX→GOLDC)")
                   /\ key = VNX_REDEEM_VAULT =>
                          (amm.direction = "Redeem" /\ amm.label = "Deaura Vault (GOLDC→VNX)")

\* the redeem vault has just been discovered
C4_Witness ==
    /\ ret.op = "from_keyed_account"
    /\ ret.args = VNX_REDEEM_VAULT
    /\ ret.result.ok
    /\ amms["amm"].label = "Deaura Vault (GOLDC→VNX)"

\* ------------------------------------------------------------------------
\* C5: the cached reserve of an instance is the balance its own vault had
\* in the AccountMap of the most recent update that succeeded (replaced, not
\* accumulated), or 0 if none has; redeem quotes are gated against exactly
\* that value (with a balance of 5000, 3000 succeeds with out 3000 and 6000
\* fails).
\* ------------------------------------------------------------------------
C5_ReserveIsLastSnapshotBalance ==
    /\ \A s \in Slots : Live(s) =>
           IF lastEntry[s] = NoEntry
           THEN amms[s].vnx_reserve = U128_ZERO
           ELSE /\ lastEntry[s].state = "Initialized"
                /\ HoldsU64(amms[s].vnx_reserve, lastEntry[s].amount)
    /\ (ret.op = "quote" /\ ret.args.input_mint = GOLDC_MINT) =>
           /\ ret.result.ok <=> ~Exceeds(ret.args.amount, lastEntry[ret.slot].amount)
           /\ lastEntry[ret.slot].amount = U64Of(5000) =>
                  /\ ret.args.amount = U64Of(3000) => QuoteIs(U64Of(3000))
                  /\ ret.args.amount = U64Of(6000) => ~ret.result.ok

\* after a snapshot balance of 5000, a redeem quote of 3000 has succeeded
C5_Witness ==
    /\ ret.op = "quote"
    /\ ret.args.input_mint = GOLDC_MINT
    /\ ret.args.amount = U64Of(3000)
    /\ lastEntry[ret.slot].amount = U64Of(5000)
    /\ lastEntry[ret.slot].state = "Initialized"
    /\ QuoteIs(U64Of(3000))

\* the payload decodes as a token-account record
DecodesAsTokenAccount(entry) ==
    /\ entry.len = TOKEN_ACCOUNT_LEN
    /\ entry.state = "Initialized"

\* ------------------------------------------------------------------------
\* C6: an update call fails with the account-not-found error when the
\* AccountMap has no entry for the instance's key, and with the
\* malformed-account error when that entry does not decode as a token
\* account; in both cases the instance is after the call as it was before.
\* ------------------------------------------------------------------------
C6_FailedUpdateLeavesReserve ==
    [][ret'.op = "update" =>
          LET s == ret'.slot
              account_map == ret'.args
              key == amms[s].key
          IN  /\ key \notin DOMAIN account_map =>
                     /\ ~ret'.result.ok
                     /\ ret'.result.err = "AccountNotFound"
                     /\ amms' = amms
              /\ (key \in DOMAIN account_map /\ ~DecodesAsTokenAccount(account_map[key])) =>
                     /\ ~ret'.result.ok
                     /\ ret'.result.err = "MalformedAccount"
                     /\ amms' = amms
              /\ ~ret'.result.ok => amms'[s].vnx_reserve = amms[s].vnx_reserve
    ]_vars

\* an update without the instance's entry has failed on a filled cache
C6_Witness ==
    /\ ret.op = "update"
    /\ ~ret.result.ok
    /\ ret.result.err = "AccountNotFound"
    /\ amms[ret.slot].key \notin DOMAIN ret.args
    /\ HoldsU64(amms[ret.slot].vnx_reserve, U64Of(5000))

\* ------------------------------------------------------------------------
\* C7: update is idempotent: applying it again with the same AccountMap to
\* the instance it has just produced leaves the instance as it is and
\* returns the same success or failure.
\* ------------------------------------------------------------------------
C7_UpdateIdempotent ==
    (ret.op = "update") =>
        LET again == update(amms[ret.slot], ret.args)
        IN  /\ again.self = amms[ret.slot]
            /\ again.result = ret.result

\* an update has succeeded and stored a balance other than 0
C7_Witness ==
    /\ ret.op = "update"
    /\ ret.result.ok
    /\ HoldsU64(amms[ret.slot].vnx_reserve, U64_MAX)
    /\ amms[ret.slot].direction = "Redeem"

\* ------------------------------------------------------------------------
\* C8: clone_amm returns an instance whose key, direction, label, program id
\* and cached reserve are those of the source at that moment, and the two
\* share no state: an update of either leaves the other unchanged, and
\* quotes change neither.
\* ------------------------------------------------------------------------
C8_CloneIsIndependentCopy ==
    [][/\ ret'.op = "clone_amm" =>
              /\ amms'["cloned"].key = amms["amm"].key
              /\ amms'["cloned"].direction = amms["amm"].direction
              /\ amms'["cloned"].label = amms["amm"].label
              /\ amms'["cloned"].program_id = amms["amm"].program_id
              /\ amms'["cloned"].vnx_reserve = amms["amm"].vnx_reserve
              /\ amms'["amm"] = amms["amm"]
       /\ ret'.op = "update" =>
              \A t \in Slots \ {ret'.slot} : amms'[t] = amms[t]
       /\ ret'.op = "quote" => amms' = amms
    ]_vars

\* the source and its duplicate hold different reserves
C8_Witness ==
    /\ Live("amm")
    /\ Live("cloned")
    /\ amms["amm"].key = amms["cloned"].key
    /\ HoldsU64(amms["amm"].vnx_reserve, U64Of(5000))
    /\ HoldsU64(amms["cloned"].vnx_reserve, U64_MAX)

\* ------------------------------------------------------------------------
\* C9: every successful get_swap_and_account_metas returns Swap::TokenSwap
\* and exactly 12 account metas (the number get_accounts_len reports), in
\* the order authority, global state, vault authority, GOLDC mint, caller's
\* GOLDC token account, VNX mint, caller's VNX token account, vault, user
\* state derived from the authority, token program, associated-token
\* program, system program; entry 0 is the only signer, entries 0..8 are
\* writable and entries 9..11 are read-only.
\* ------------------------------------------------------------------------
C9_TwelveAccountsInFixedOrder ==
    (ret.op = "get_swap_and_account_metas" /\ ret.result.ok) =>
        LET m == ret.result.value.account_metas
            p == ret.args
        IN  /\ ret.result.value.swap = "TokenSwap"
            /\ Len(m) = 12
            /\ Len(m) = get_accounts_len(amms[ret.slot])
            /\ m[1].pubkey = p.token_transfer_authority
            /\ m[2].pubkey = "pda(global_state)@" \o DEAURA_PROGRAM_ID
            /\ m[3].pubkey = "pda(vault_authority)@" \o DEAURA_PROGRAM_ID
            /\ m[4].pubkey = GOLDC_MINT
            /\ {m[5].pubkey, m[7].pubkey} =
                   {p.source_token_account, p.destination_token_account}
            /\ m[6].pubkey = VNX_MINT
            /\ m[8].pubkey \in {VNX_DEPOSIT_VAULT, VNX_REDEEM_VAULT}
            /\ m[9].pubkey =
                   "pda(user_state," \o p.token_transfer_authority \o ")@" \o DEAURA_PROGRAM_ID
            /\ m[10].pubkey = SPL_TOKEN_ID
            /\ m[11].pubkey = SPL_ASSOCIATED_TOKEN_ACCOUNT_ID
            /\ m[12].pubkey = SYSTEM_PROGRAM_ID
            /\ \A i \in 1..12 : m[i].is_signer <=> (i = 1)
            /\ \A i \in 1..12 : m[i].is_writable <=> (i <= 9)

\* an account list has been built for the second wallet
C9_Witness ==
    /\ ret.op = "get_swap_and_account_metas"
    /\ ret.result.ok
    /\ ret.args.token_transfer_authority = WALLET_B
    /\ ret.result.value.account_metas[1].pubkey = WALLET_B

\* ------------------------------------------------------------------------
\* C10: in get_swap_and_account_metas the direction comes from the source
\* mint: for VNX the source token account fills the VNX token-account slot,
\* the destination the GOLDC slot, the vault slot holds the deposit vault
\* and the deposit discriminator is chosen; for GOLDC the source fills the
\* GOLDC slot, the destination the VNX slot, the vault slot holds the redeem
\* vault and the redeem discriminator is chosen.
\* ------------------------------------------------------------------------
C10_RolesFollowSourceMint ==
    (ret.op = "get_swap_and_account_metas" /\ ret.result.ok) =>
        LET m == ret.result.value.account_metas
            p == ret.args
            ix == swap_instruction(p).value
        IN  /\ p.source_mint \in {VNX_MINT, GOLDC_MINT}
            /\ ix.accounts = m
            /\ p.source_mint = VNX_MINT =>
                   /\ m[7].pubkey = p.source_token_account
                   /\ m[5].pubkey = p.destination_token_account
                   /\ m[8].pubkey = VNX_DEPOSIT_VAULT
                   /\ SubSeq(ix.data, 1, 8) = <<242, 35, 198, 137, 82, 225, 242, 182>>
            /\ p.source_mint = GOLDC_MINT =>
                   /\ m[5].pubkey = p.source_token_account
                   /\ m[7].pubkey = p.destination_token_account
                   /\ m[8].pubkey = VNX_REDEEM_VAULT
                   /\ SubSeq(ix.data, 1, 8) = <<184, 12, 86, 149, 70, 196, 97, 225>>

\* a deposit-direction instance has built the account list of a redeem
C10_Witness ==
    /\ ret.op = "get_swap_and_account_metas"
    /\ ret.result.ok
    /\ ret.args.source_mint = GOLDC_MINT
    /\ amms[ret.slot].direction = "Deposit"
    /\ ret.result.value.account_metas[5].pubkey = ret.args.source_token_account

\* ------------------------------------------------------------------------
\* C11: get_swap_and_account_metas fails with the unsupported-asset error,
\* producing no account list, if and only if the source mint is neither VNX
\* nor GOLDC; for a supported source mint it succeeds for every amount,
\* authority, token account and cached reserve (a redeem is built even when
\* the cached reserve is 0).
\* ------------------------------------------------------------------------
C11_OnlyUnsupportedMintFails ==
    (ret.op = "get_swap_and_account_metas") =>
        LET supported == ret.args.source_mint \in {VNX_MINT, GOLDC_MINT}
        IN  /\ ret.result.ok <=> supported
            /\ ~supported =>
                   /\ ret.result.err = "UnsupportedAsset"
                   /\ ret.result.value = <<>>
            /\ supported => Len(ret.result.value.account_metas) = 12

\* a redeem of u64::MAX has been built on an instance whose reserve is 0
C11_Witness ==
    /\ ret.op = "get_swap_and_account_metas"
    /\ ret.args.source_mint = GOLDC_MINT
    /\ ret.args.in_amount = U64_MAX
    /\ amms[ret.slot].vnx_reserve = U128_ZERO
    /\ amms[ret.slot].direction = "Redeem"
    /\ ret.result.ok

\* ------------------------------------------------------------------------
\* C12: the instruction built by get_swap_and_account_metas carries exactly
\* 16 bytes of data: bytes 0-7 are the discriminator of the direction
\* inferred from the source mint, bytes 8-15 the input amount as an unsigned
\* 64-bit little-endian integer, without padding or length prefix.
\* ------------------------------------------------------------------------
C12_PayloadIsDiscriminatorThenLeAmount ==
    (ret.op = "get_swap_and_account_metas" /\ ret.result.ok) =>
        LET data == swap_instruction(ret.args).value.data
            a == ret.args.in_amount
        IN  /\ Len(data) = 16
            /\ \A i \in 1..16 : data[i] \in 0..255
            /\ ret.args.source_mint = VNX_MINT =>
                   SubSeq(data, 1, 8) = <<242, 35, 198, 137, 82, 225, 242, 182>>
            /\ ret.args.source_mint = GOLDC_MINT =>
                   SubSeq(data, 1, 8) = <<184, 12, 86, 149, 70, 196, 97, 225>>
            \* bytes 8+2k and 9+2k hold the k-th 16-bit digit of the amount,
            \* counted from the least significant, low byte first
            /\ \A k \in 0..3 : data[9 + 2 * k] + 256 * data[10 + 2 * k] = a[4 - k]
            /\ a = U64Of(1000) => SubSeq(data, 9, 16) = <<232, 3, 0, 0, 0, 0, 0, 0>>
            /\ a = <<258, 772, 1286, 1800>> => SubSeq(data, 9, 16) = <<8, 7, 6, 5, 4, 3, 2, 1>>

\* a deposit of 0x0102030405060708 has been built
C12_Witness ==
    /\ ret.op = "get_swap_and_account_metas"
    /\ ret.result.ok
    /\ ret.args.source_mint = VNX_MINT
    /\ ret.args.in_amount = <<258, 772, 1286, 1800>>
    /\ SubSeq(swap_instruction(ret.args).value.data, 9, 16) = <<8, 7, 6, 5, 4, 3, 2, 1>>

\* the instance self as it would be with another direction
WithDirection(self, d) == [self EXCEPT !.direction = d]

\* ------------------------------------------------------------------------
\* C13: quoting a deposit-direction instance with GOLDC as input is not
\* rejected as a direction mismatch: the liquidity check runs against that
\* instance's own cached reserve, failing with the insufficient-liquidity
\* error above it (any amount >= 1 when never updated) and succeeding 1:1
\* up to it; the outcome of quote depends on the input mint, the amount and
\* the cached reserve only, never on the direction.
\* ------------------------------------------------------------------------
C13_QuoteIgnoresDirection ==
    (ret.op = "quote") =>
        LET self == amms[ret.slot]
            a == ret.args.amount
        IN  /\ (self.direction = "Deposit" /\ ret.args.input_mint = GOLDC_MINT) =>
                   /\ AboveReserve(a, self.vnx_reserve) =>
                          QuoteFailedWith("InsufficientLiquidity")
                   /\ ~AboveReserve(a, self.vnx_reserve) => QuoteIs(a)
                   /\ lastEntry[ret.slot] = NoEntry => (ret.result.ok <=> a = U64Of(0))
            /\ \A d \in {"Deposit", "Redeem"} :
                   quote(WithDirection(self, d), ret.args) = ret.result

\* an updated deposit-direction instance has quoted a redeem within its reserve
C13_Witness ==
    /\ ret.op = "quote"
    /\ amms[ret.slot].direction = "Deposit"
    /\ ret.args.input_mint = GOLDC_MINT
    /\ ret.args.amount = U64Of(3000)
    /\ HoldsU64(amms[ret.slot].vnx_reserve, U64Of(5000))
    /\ QuoteIs(U64Of(3000))

\* the AccountMap without the entries of keys outside watched
Restrict(account_map, watched) ==
    [k \in (DOMAIN account_map) \cap watched |-> account_map[k]]

\* ------------------------------------------------------------------------
\* C14: get_accounts_to_update returns exactly one account, the instance's
\* own key (the vault it was discovered from); update reads the AccountMap
\* entry of that account and no other.
\* ------------------------------------------------------------------------
C14_WatchesOwnVaultOnly ==
    /\ \A s \in Slots : Live(s) =>
           /\ Len(get_accounts_to_update(amms[s])) = 1
           /\ get_accounts_to_update(amms[s])[1] = amms[s].key
           /\ amms[s].key \in {VNX_DEPOSIT_VAULT, VNX_REDEEM_VAULT}
    /\ (ret.op = "get_accounts_to_update") =>
           ret.result = Ok(<<amms[ret.slot].key>>)
    /\ (ret.op = "update") =>
           \* the call had the outcome it has on the map cut down to the
           \* instance's own entry
           LET own == Restrict(ret.args, {amms[ret.slot].key})
           IN  update(amms[ret.slot], own) = [self |-> amms[ret.slot], result |-> ret.result]

\* an updated deposit-direction instance has been asked for its accounts
C14_Witness ==
    /\ ret.op = "get_accounts_to_update"
    /\ amms[ret.slot].direction = "Deposit"
    /\ HoldsU64(amms[ret.slot].vnx_reserve, U64Of(5000))
    /\ ret.result.value = <<VNX_DEPOSIT_VAULT>>

\* the fields of an instance other than its cached reserve
FixedFields(self) ==
    [key |-> self.key, label |-> self.label, program_id |-> self.program_id,
     vnx_vault |-> self.vnx_vault, direction |-> self.direction]

ReadOnlyCalls ==
    {"quote", "get_swap_and_account_metas", "get_accounts_to_update",
     "get_accounts_len", "clone_amm"}

\* ------------------------------------------------------------------------
\* C15: over any sequence of operations the key, direction, label and
\* program id of an instance stay as they were right after discovery, and
\* its cached reserve changes only in a step that is a successful update of
\* it: quote, get_swap_and_account_metas, get_accounts_to_update and
\* clone_amm leave every field unchanged, whether they succeed or fail.
\* ------------------------------------------------------------------------
C15_OnlySuccessfulUpdateMutates ==
    [][\A s \in Slots :
          \* a step that leaves the instance as it is keeps all of this
          \/ amms'[s] = amms[s]
          \/ /\ amms[s] # NoAmm =>
                    /\ ret'.op \notin ReadOnlyCalls
                    /\ amms'[s] # NoAmm
                    /\ FixedFields(amms'[s]) = FixedFields(amms[s])
                    /\ ret'.op = "update"
                    /\ ret'.slot = s
                    /\ ret'.result.ok
             /\ amms[s] = NoAmm =>
                    /\ ret'.op \in {"from_keyed_account", "clone_amm"}
                    /\ FixedFields(amms'[s]) =
                           FixedFields(from_keyed_account(amms'[s].key).value)
    ]_vars

\* a redeem quote has failed on an instance whose cache is filled
C15_Witness ==
    /\ ret.op = "quote"
    /\ ret.args.input_mint = GOLDC_MINT
    /\ ret.args.amount = U64Of(6000)
    /\ QuoteFailedWith("InsufficientLiquidity")
    /\ HoldsU64(amms[ret.slot].vnx_reserve, U64Of(5000))
    /\ amms[ret.slot].label = "Deaura Vault (GOLDC→VNX)"

\* instances of either vault, with an empty and with a full cache
AnyInstances ==
    {[from_keyed_account(k).value EXCEPT !.vnx_reserve = r] :
        k \in {VNX_DEPOSIT_VAULT, VNX_REDEEM_VAULT},
        r \in {U128_ZERO, <<0, 0, 0, 0>> \o U64_MAX}}

\* ------------------------------------------------------------------------
\* C16: the result of get_swap_and_account_metas is a function of the swap
\* parameters alone: instances that differ in key, direction or cached
\* reserve return the same result for the same parameters.  So the vault in
\* the account list is the vault of the direction inferred from the source
\* mint, which is not the instance's own key when a deposit-direction
\* instance is given GOLDC or a redeem-direction instance VNX.
\* ------------------------------------------------------------------------
C16_SwapResultIgnoresInstance ==
    (ret.op = "get_swap_and_account_metas") =>
        LET self == amms[ret.slot]
        IN  /\ \A other \in AnyInstances :
                   get_swap_and_account_metas(other, ret.args) = ret.result
            /\ ret.result.ok =>
                   LET vault == ret.result.value.account_metas[8].pubkey
                   IN  /\ ret.args.source_mint = VNX_MINT => vault = VNX_DEPOSIT_VAULT
                       /\ ret.args.source_mint = GOLDC_MINT => vault = VNX_REDEEM_VAULT
                       /\ (self.direction = "Deposit" /\ ret.args.source_mint = GOLDC_MINT) =>
                              vault # self.key
                       /\ (self.direction = "Redeem" /\ ret.args.source_mint = VNX_MINT) =>
                              vault # self.key

\* a redeem-direction instance has built the account list of a deposit
C16_Witness ==
    /\ ret.op = "get_swap_and_account_metas"
    /\ ret.result.ok
    /\ ret.args.source_mint = VNX_MINT
    /\ amms[ret.slot].key = VNX_REDEEM_VAULT
    /\ ret.result.value.account_metas[8].pubkey = VNX_DEPOSIT_VAULT

====
